---- MODULE Spec2Model ----
(***************************************************************************)
(* Model of customer_management.py: the customer ledger (Ledger), its      *)
(* customer and sale records, the JSON import and the text report.         *)
(*                                                                         *)
(* Conventions                                                             *)
(*   - a Python str that the program concatenates or compares (customer    *)
(*     names and ids) is a sequence of tokens, "X" + ".alt" being          *)
(*     <<"X", ".alt">>; the empty str is <<>>;                             *)
(*   - an optional value is None == <<>> or Some(v) == <<v>>;              *)
(*   - a date is <<year, month, day>>; date texts are parsed by            *)
(*     FromIsoFormat, which checks the calendar as datetime does;          *)
(*   - a raised exception is [exc |-> class, at |-> source line];          *)
(*   - every operation is an operator from the ledger and the arguments to *)
(*     [customers, err, ret], and an action that applies it.               *)
(***************************************************************************)
EXTENDS Integers, Sequences, FiniteSets, TLC

VARIABLES
    customers,  \* Ledger.customers: the dict, as the sequence of its items in insertion order
    lastOp,     \* the recorded call: its operation, or "none"
    arg,        \* the recorded call: its arguments
    pre,        \* the recorded call: Ledger.customers before it
    err,        \* the recorded call: the exception it raised, or Ok
    ret         \* the recorded call: the value it returned

vars == <<customers, lastOp, arg, pre, err, ret>>

\* ------------------------------------------------------------------ bounds

MaxCustomers == 2
MaxSize == 3
MaxPayload == 3

\* ------------------------------------------------------------ basic values

None == <<>>
Some(v) == <<v>>

Ok == [exc |-> "none", at |-> "none"]
Raise(exc, at) == [exc |-> exc, at |-> at]

Good(v) == [err |-> Ok, val |-> v]
Bad(e) == [err |-> e, val |-> None]

\* not x, for x a str or None
Falsy(x) == x = <<>>

\* ------------------------------------------------------------------- enums

SaleCodeMembers == {"UNKNOWN", "STANDALONE", "UPGRADE", "SUBSCRIPTION"}

SaleCodeValue(m) ==
    CASE m = "UNKNOWN" -> "X"
      [] m = "STANDALONE" -> "S"
      [] m = "UPGRADE" -> "U"
      [] m = "SUBSCRIPTION" -> "R"

\* SaleCode(value): the member with that value, or ValueError
SaleCode(v, at) ==
    IF \E m \in SaleCodeMembers : SaleCodeValue(m) = v
    THEN Good(CHOOSE m \in SaleCodeMembers : SaleCodeValue(m) = v)
    ELSE Bad(Raise("ValueError", at))

CustomerCodeMembers == {"UNKNOWN", "CASH", "ACCOUNT", "SUBSCRIPTION"}

CustomerCodeValue(m) ==
    CASE m = "UNKNOWN" -> "X"
      [] m = "CASH" -> "C"
      [] m = "ACCOUNT" -> "A"
      [] m = "SUBSCRIPTION" -> "R"

\* CustomerCode(value): the member with that value, or ValueError
CustomerCode(v, at) ==
    IF \E m \in CustomerCodeMembers : CustomerCodeValue(m) = v
    THEN Good(CHOOSE m \in CustomerCodeMembers : CustomerCodeValue(m) = v)
    ELSE Bad(Raise("ValueError", at))

\* ------------------------------------------------------------------- dates

IsLeap(y) == (y % 4 = 0) /\ ((y % 100 # 0) \/ (y % 400 = 0))

DaysInMonth(y, m) ==
    IF m = 2 THEN (IF IsLeap(y) THEN 29 ELSE 28)
    ELSE IF m \in {4, 6, 9, 11} THEN 30 ELSE 31

ValidDate(d) ==
    /\ Len(d) = 3
    /\ d[1] >= 1
    /\ d[2] \in 1..12
    /\ d[3] >= 1
    /\ d[3] <= DaysInMonth(d[1], d[2])

RECURSIVE DaysBeforeMonth(_, _)
DaysBeforeMonth(y, m) ==
    IF m = 1 THEN 0 ELSE DaysBeforeMonth(y, m - 1) + DaysInMonth(y, m - 1)

DaysBeforeYear(y) ==
    (y - 1) * 365 + ((y - 1) \div 4) - ((y - 1) \div 100) + ((y - 1) \div 400)

\* datetime.toordinal
ToOrdinal(d) == DaysBeforeYear(d[1]) + DaysBeforeMonth(d[1], d[2]) + d[3]

\* datetime.fromisoformat(text): a date text is <<y, m, d>> as written, any
\* other text is <<>>; the result is the datetime at midnight of that day
FromIsoFormat(text, at) ==
    IF ValidDate(text) THEN Good(text) ELSE Bad(Raise("ValueError", at))

\* the date arguments: a datetime, a str, or a value of another type
DateTimeArg(d) == [type |-> "datetime", val |-> d]
StrArg(t) == [type |-> "str", val |-> t]
OtherArg == [type |-> "other", val |-> <<>>]

\* if isinstance(date, str): date = fromisoformat(date)
\* else: assert isinstance(date, datetime)
CoerceDate(x, at) ==
    IF x.type = "str" THEN FromIsoFormat(x.val, at)
    ELSE IF x.type = "datetime" THEN Good(x.val)
    ELSE Bad(Raise("AssertionError", at))

\* ------------------------------------------------------------------- sales

SaleClasses == {"BaseSale", "ProductSale", "SubscriptionSale", "UpgradeSale"}

\* a price argument: a Decimal, or a value of another type (a float)
DecimalArg(cents) == [type |-> "Decimal", cents |-> cents]
FloatArg(cents) == [type |-> "float", cents |-> cents]

\* BaseSale.__init__; cls and sale_type are what the subclass sets afterwards
BaseSale_init(cls, sale_type, item, date, price, quantity) ==
    IF price.type # "Decimal" THEN Bad(Raise("AssertionError", "price"))
    ELSE LET d == CoerceDate(date, "sale.date")
         IN  IF d.err # Ok THEN Bad(d.err)
             ELSE Good([cls |-> cls, sale_type |-> sale_type, item |-> item,
                        date |-> d.val, price |-> price.cents,
                        quantity |-> quantity, expiration |-> None])

BaseSale(item, date, price, quantity) ==
    BaseSale_init("BaseSale", "UNKNOWN", item, date, price, quantity)

\* ProductSale(*args, **kwargs): kwargs go to BaseSale.__init__, which takes
\* no keyword but quantity; kw is the expiration keyword, None when not passed
ProductSale(item, date, price, quantity, kw) ==
    IF kw # None THEN Bad(Raise("TypeError", "kwargs"))
    ELSE BaseSale_init("ProductSale", "STANDALONE", item, date, price, quantity)

\* SubscriptionSale(*args, expiration=None, **kwargs); kw is Some(date argument)
SubscriptionSale(item, date, price, quantity, kw) ==
    LET base == BaseSale_init("SubscriptionSale", "SUBSCRIPTION", item, date, price, quantity)
        \* if expiration: (None and the empty str are skipped)
        given == kw # None /\ ~(kw[1].type = "str" /\ Falsy(kw[1].val))
        e == CoerceDate(kw[1], "expiration")
    IN  IF base.err # Ok THEN base
        ELSE IF ~given THEN base
        ELSE IF e.err # Ok THEN Bad(e.err)
        ELSE Good([base.val EXCEPT !.expiration = Some(e.val)])

\* UpgradeSale(*args, prev_sale=None, **kwargs), without a prev_sale
UpgradeSale(item, date, price, quantity, kw) ==
    IF kw # None THEN Bad(Raise("TypeError", "kwargs"))
    ELSE BaseSale_init("UpgradeSale", "UPGRADE", item, date, price, quantity)

\* SALE_MAP[code](item, date, price, quantity, **kwargs): KeyError for a code
\* that is no key of the dict
SALE_MAP(code, item, date, price, quantity, kw) ==
    CASE code = "STANDALONE" -> ProductSale(item, date, price, quantity, kw)
      [] code = "SUBSCRIPTION" -> SubscriptionSale(item, date, price, quantity, kw)
      [] code = "UPGRADE" -> UpgradeSale(item, date, price, quantity, kw)
      [] OTHER -> Bad(Raise("KeyError", "SALE_MAP"))

Pad2(n) == IF n < 10 THEN <<"0", ToString(n)>> ELSE <<ToString(n)>>

\* strftime('%Y-%m-%d')
StrfDate(d) == <<ToString(d[1]), "-">> \o Pad2(d[2]) \o <<"-">> \o Pad2(d[3])

\* BaseSale.__str__ and SubscriptionSale.__str__
Sale_str(sale) ==
    LET summary == <<sale.item, " [", SaleCodeValue(sale.sale_type), "]">>
        base == IF sale.quantity > 1
                THEN <<ToString(sale.quantity), "x ">> \o summary
                ELSE summary
    IN  IF sale.cls = "SubscriptionSale" /\ sale.expiration # None
        THEN base \o <<" (exp: ">> \o StrfDate(sale.expiration[1]) \o <<")">>
        ELSE base

\* --------------------------------------------------------------- customers

\* CashCustomer, AccountCustomer, SubscriptionCustomer (name, acquisition_date)
NewCustomer(cls, cust_type, name, acquisition_date) ==
    [cls |-> cls, cust_type |-> cust_type, name |-> name,
     acquisition_date |-> acquisition_date, sales |-> <<>>]

\* the map, with a base-class customer for a code that is no key
CUSTOMER_MAP_default(code, name, acquisition_date) ==
    CASE code = "SUBSCRIPTION" ->
            Good(NewCustomer("SubscriptionCustomer", "SUBSCRIPTION", name, acquisition_date))
      [] code = "ACCOUNT" ->
            Good(NewCustomer("AccountCustomer", "ACCOUNT", name, acquisition_date))
      [] code = "CASH" ->
            Good(NewCustomer("CashCustomer", "CASH", name, acquisition_date))
      [] OTHER -> Good(NewCustomer("BaseCustomer", "UNKNOWN", name, acquisition_date))

\* CUSTOMER_MAP[code](name, acquisition_date): KeyError for a code that is no
\* key of the dict
CUSTOMER_MAP(code, name, acquisition_date) ==
    CASE code = "SUBSCRIPTION" ->
            Good(NewCustomer("SubscriptionCustomer", "SUBSCRIPTION", name, acquisition_date))
      [] code = "ACCOUNT" ->
            Good(NewCustomer("AccountCustomer", "ACCOUNT", name, acquisition_date))
      [] code = "CASH" ->
            Good(NewCustomer("CashCustomer", "CASH", name, acquisition_date))
      [] OTHER -> Bad(Raise("KeyError", "CUSTOMER_MAP"))

\* the refusal, testing for the wrong class of sale
CashRule_upgrade(c, sale) == c.cls = "CashCustomer" /\ sale.cls = "UpgradeSale"

\* the check of BaseCustomer.add_sale that refuses a sale
CashRule(c, sale) == c.cls = "CashCustomer" /\ sale.cls = "SubscriptionSale"

\* add_sale, inserting the sale at the front of the list
BaseCustomer_add_sale_prepend(c, sale) ==
    IF sale.cls \notin SaleClasses THEN Bad(Raise("AssertionError", "sale"))
    ELSE IF CashRule(c, sale) THEN Bad(Raise("AssertionError", "cash-subscription"))
    ELSE Good([c EXCEPT !.sales = <<sale>> \o @])

\* BaseCustomer.add_sale(sale): the customer afterwards, or the exception
BaseCustomer_add_sale(c, sale) ==
    IF sale.cls \notin SaleClasses THEN Bad(Raise("AssertionError", "sale"))
    ELSE IF CashRule(c, sale) THEN Bad(Raise("AssertionError", "cash-subscription"))
    ELSE Good([c EXCEPT !.sales = Append(@, sale)])

\* BaseCustomer.age at the time now = [date, tod]; tod is 0 at midnight and 1
\* later in the day, acquisition dates are at midnight
Customer_age(c, now) == ToOrdinal(now.date) - ToOrdinal(c.acquisition_date)

\* datetime_min <= sale.date <= datetime.now(), sale dates being at midnight
InWindow(sale, dmin, now) ==
    /\ \/ ToOrdinal(sale.date) > ToOrdinal(dmin.date)
       \/ ToOrdinal(sale.date) = ToOrdinal(dmin.date) /\ dmin.tod = 0
    /\ ToOrdinal(sale.date) <= ToOrdinal(now.date)

\* BaseCustomer.find_sales(datetime_min), datetime_max defaulting to now
RECURSIVE find_sales(_, _, _)
find_sales(sales, dmin, now) ==
    IF sales = <<>> THEN <<>>
    ELSE IF InWindow(Head(sales), dmin, now)
         THEN <<Head(sales)>> \o find_sales(Tail(sales), dmin, now)
         ELSE find_sales(Tail(sales), dmin, now)

\* f"{age / 365:.1f}": the nearest tenth (age * 10 / 365 is never halfway)
Fmt1(age) ==
    LET a == IF age < 0 THEN 0 - age ELSE age
        t == (20 * a + 365) \div 730
        digits == <<ToString(t \div 10), ".", ToString(t % 10)>>
    IN  IF age < 0 THEN <<"-">> \o digits ELSE digits

\* '\n    '.join(lines)
RECURSIVE JoinLines(_)
JoinLines(lines) ==
    IF lines = <<>> THEN <<>>
    ELSE IF Len(lines) = 1 THEN Head(lines)
    ELSE Head(lines) \o <<"\n", "    ">> \o JoinLines(Tail(lines))

\* today.replace(year=today.year - 1)
ReplaceYear(now) ==
    LET d == <<now.date[1] - 1, now.date[2], now.date[3]>>
    IN  IF ValidDate(d) THEN Good([date |-> d, tod |-> now.tod])
        ELSE Bad(Raise("ValueError", "replace-year"))

\* BaseCustomer.summary_line
summary_line(c, now) ==
    LET last_year == ReplaceYear(now)
        found == find_sales(c.sales, last_year.val, now)
        sale_summaries == [i \in 1..Len(found) |-> Sale_str(found[i])]
        head == c.name \o <<" [", CustomerCodeValue(c.cust_type), "], ",
                            "Duration: ">> \o Fmt1(Customer_age(c, now))
                       \o <<" years, ", "Purchases in the last year:", "\n">>
    IN  IF last_year.err # Ok THEN Bad(last_year.err)
        ELSE IF sale_summaries # <<>>
             THEN Good(head \o <<"    ">> \o JoinLines(sale_summaries))
             ELSE Good(head \o <<"(none)">>)

\* ------------------------------------------------------------------ ledger

Result(cs, e, r) == [customers |-> cs, err |-> e, ret |-> r]

\* cust_id in self.customers
HasId(cs, id) == \E i \in 1..Len(cs) : cs[i].id = id

IndexOf(cs, id) == CHOOSE i \in 1..Len(cs) : cs[i].id = id

\* self.customers[cust_id]
Lookup(cs, id) == cs[IndexOf(cs, id)].cust

\* a kind argument: a CustomerCode member, or a value of another type
CodeArg(m) == [type |-> "CustomerCode", val |-> m]
NotACode == [type |-> "other", val |-> "none"]

\* if not cust_id: cust_id = name; cust_id is None or Some(str)
DefaultId(name, cust_id) ==
    IF cust_id = None \/ Falsy(cust_id[1]) THEN name ELSE cust_id[1]

\* Ledger.add_customer(name, acquistion_date, cust_code, cust_id=None)
Ledger_add_customer(cs, name, acquistion_date, cust_code, cust_id) ==
    LET date == CoerceDate(acquistion_date, "acquisition_date")
        id == DefaultId(name, cust_id)
        customer == CUSTOMER_MAP(cust_code.val, name, date.val)
    IN  IF cust_code.type # "CustomerCode"
        THEN Result(cs, Raise("AssertionError", "cust_code"), None)
        ELSE IF date.err # Ok THEN Result(cs, date.err, None)
        ELSE IF HasId(cs, id)
        THEN Result(cs, Raise("ValueError", "duplicate"), None)
        ELSE IF customer.err # Ok THEN Result(cs, customer.err, None)
        ELSE Result(Append(cs, [id |-> id, cust |-> customer.val]), Ok, Some(id))

\* customer.add_sale(sale) on the customer at position i of the ledger
Customer_add_sale(cs, i, sale) ==
    LET r == BaseCustomer_add_sale(cs[i].cust, sale)
    IN  IF r.err # Ok THEN Result(cs, r.err, None)
        ELSE Result([cs EXCEPT ![i].cust = r.val], Ok, None)

\* add_sale, giving the sale to the first customer of the ledger
Ledger_add_sale_first(cs, cust_id, sale) ==
    IF ~HasId(cs, cust_id)
    THEN Result(cs, Raise("AssertionError", "cust_id"), None)
    ELSE Customer_add_sale(cs, 1, sale)

\* Ledger.add_sale(cust_id, sale)
Ledger_add_sale(cs, cust_id, sale) ==
    IF ~HasId(cs, cust_id)
    THEN Result(cs, Raise("AssertionError", "cust_id"), None)
    ELSE Customer_add_sale(cs, IndexOf(cs, cust_id), sale)

\* Ledger.customer_list
customer_list(cs) == [i \in 1..Len(cs) |-> cs[i].cust]

\* the loop of Ledger.generate_report over customer_list
RECURSIVE ReportLines(_, _)
ReportLines(list, now) ==
    IF list = <<>> THEN Good(<<>>)
    ELSE LET line == summary_line(Head(list), now)
             rest == ReportLines(Tail(list), now)
         IN  IF line.err # Ok THEN line
             ELSE IF rest.err # Ok THEN rest
             ELSE Good(line.val \o <<"\n">> \o rest.val)

\* Ledger.generate_report at the time now
Ledger_generate_report(cs, now) ==
    LET lines == ReportLines(customer_list(cs), now)
    IN  IF cs = <<>> THEN Result(cs, Ok, Some(<<"Customers:", "\n", "(none)">>))
        ELSE IF lines.err # Ok THEN Result(cs, lines.err, None)
        ELSE Result(cs, Ok, Some(<<"Customers:", "\n">> \o lines.val))

\* ------------------------------------------------------------------ import

\* a text: not well-formed JSON, or the JSON text of a value
GarbageText == [wf |-> FALSE, value |-> <<>>]
JsonText(v) == [wf |-> TRUE, value |-> v]

\* JSON values at the top level: a list of records, or an object
JsonList(items) == [type |-> "list", items |-> items]
JsonObject == [type |-> "object", items |-> <<>>]

\* what open(filename) finds: no such file, or a file with this content
NoFile == [exists |-> FALSE, content |-> GarbageText]
FileWith(text) == [exists |-> TRUE, content |-> text]

\* Decimal(text): a numeral is <<its value in cents>>, any other text is <<>>
Decimal(text) ==
    IF Len(text) = 1 THEN Good(DecimalArg(text[1]))
    ELSE Bad(Raise("InvalidOperation", "Decimal"))

\* entry.get('quantity', 1)
GetQuantity(entry) == IF entry.quantity = None THEN 1 ELSE entry.quantity[1]

\* if 'expiration' in entry: kwargs = {'expiration': entry['expiration']}
GetKwargs(entry) ==
    IF entry.expiration = None THEN None ELSE Some(StrArg(entry.expiration[1]))

\* the body of the loop over the sales of a record, lines 280 to 292
ImportEntry(cs, cust_id, entry) ==
    LET price == Decimal(entry.price)
        code == SaleCode(entry.sale_type, "SaleCode")
        sale == SALE_MAP(code.val, entry.item, StrArg(entry.date), price.val,
                         GetQuantity(entry), GetKwargs(entry))
    IN  IF price.err # Ok THEN Result(cs, price.err, None)
        ELSE IF code.err # Ok THEN Result(cs, code.err, None)
        ELSE IF sale.err # Ok THEN Result(cs, sale.err, None)
        ELSE Ledger_add_sale(cs, cust_id, sale.val)

\* for entry in record.get('sales', []): stops at the first exception
RECURSIVE ImportEntries(_, _, _)
ImportEntries(cs, cust_id, entries) ==
    IF entries = <<>> THEN Result(cs, Ok, None)
    ELSE LET r == ImportEntry(cs, cust_id, Head(entries))
         IN  IF r.err # Ok THEN r
             ELSE ImportEntries(r.customers, cust_id, Tail(entries))

\* the suffix appended once: if instead of while
FreeId_once(cs, cust_id) ==
    IF HasId(cs, cust_id) THEN Append(cust_id, ".alt") ELSE cust_id

\* while cust_id in self.customers: cust_id += ".alt"
RECURSIVE FreeId(_, _)
FreeId(cs, cust_id) ==
    IF HasId(cs, cust_id) THEN FreeId(cs, Append(cust_id, ".alt")) ELSE cust_id

\* the loop body, adding the sales under the record's name instead of cust_id
ImportRecord_byName(cs, record) ==
    LET cust_code == CustomerCode(record.cust_type, "CustomerCode")
        cust_id == FreeId(cs, record.name)
        added == Ledger_add_customer(cs, record.name, StrArg(record.aquisition_date),
                                     CodeArg(cust_code.val), Some(cust_id))
    IN  IF cust_code.err # Ok THEN Result(cs, cust_code.err, None)
        ELSE IF added.err # Ok THEN Result(cs, added.err, None)
        ELSE ImportEntries(added.customers, record.name, record.sales)

\* the body of the loop over the records, lines 271 to 292
ImportRecord(cs, record) ==
    LET cust_code == CustomerCode(record.cust_type, "CustomerCode")
        cust_id == FreeId(cs, record.name)
        added == Ledger_add_customer(cs, record.name, StrArg(record.aquisition_date),
                                     CodeArg(cust_code.val), Some(cust_id))
    IN  IF cust_code.err # Ok THEN Result(cs, cust_code.err, None)
        ELSE IF added.err # Ok THEN Result(cs, added.err, None)
        ELSE ImportEntries(added.customers, cust_id, record.sales)

\* for record in data: stops at the first exception
RECURSIVE ImportRecords(_, _)
ImportRecords(cs, data) ==
    IF data = <<>> THEN Result(cs, Ok, None)
    ELSE LET r == ImportRecord(cs, Head(data))
         IN  IF r.err # Ok THEN r
             ELSE ImportRecords(r.customers, Tail(data))

\* json.loads(text)
JsonLoads(text) ==
    IF text.wf THEN Good(text.value)
    ELSE Bad(Raise("JSONDecodeError", "json.loads"))

\* import_json, restoring the ledger when a record or an entry fails
Ledger_import_json_atomic(cs, filename, file) ==
    LET data == JsonLoads(file.content)
        r == ImportRecords(cs, data.val.items)
    IN  IF ~file.exists THEN Result(cs, Raise("FileNotFoundError", "open"), None)
        ELSE IF data.err # Ok THEN Result(cs, data.err, None)
        ELSE IF data.val.type # "list"
        THEN Result(cs, Raise("AssertionError", "data"), None)
        ELSE IF r.err # Ok THEN Result(cs, r.err, None)
        ELSE r

\* Ledger.import_json(filename); file is what open(filename) finds
Ledger_import_json(cs, filename, file) ==
    LET data == JsonLoads(file.content)
    IN  IF ~file.exists THEN Result(cs, Raise("FileNotFoundError", "open"), None)
        ELSE IF data.err # Ok THEN Result(cs, data.err, None)
        ELSE IF data.val.type # "list"
        THEN Result(cs, Raise("AssertionError", "data"), None)
        ELSE ImportRecords(cs, data.val.items)

\* ------------------------------------------------------------------ inputs

X == <<"X">>
XAlt == <<"X", ".alt">>
EmptyStr == <<>>

Names == {EmptyStr, X}
IdArgs == {None, Some(EmptyStr), Some(X)}

DateArgs == {DateTimeArg(<<2017, 1, 2>>), StrArg(<<2017, 1, 2>>),
             StrArg(<<2019, 2, 29>>), OtherArg}

CodeArgs == {CodeArg(m) : m \in CustomerCodeMembers} \cup {NotACode}

\* the sales of the test records, constructed as kymeta_demo.py constructs one
Anvil == ProductSale("Anvil", StrArg(<<2019, 4, 1>>), DecimalArg(2999), 8, None).val
Dynamite == SubscriptionSale("Dynamite", StrArg(<<2019, 3, 20>>), DecimalArg(121), 1,
                             Some(StrArg(<<2025, 3, 20>>))).val
Fuse == UpgradeSale("Longer Fuse", StrArg(<<2019, 3, 20>>), DecimalArg(1), 1, None).val
NotASale == [cls |-> "object"]

SaleArgs == {Anvil, Dynamite, Fuse, NotASale}

\* the times at which a report is made
Nows == {[date |-> <<2020, 1, 2>>, tod |-> 1],
         [date |-> <<2020, 2, 29>>, tod |-> 1],
         [date |-> <<2020, 3, 20>>, tod |-> 0],
         [date |-> <<2020, 3, 20>>, tod |-> 1],
         [date |-> <<2019, 3, 25>>, tod |-> 1]}

\* import records and their sales entries
Entry(t, item, date, price, quantity, expiration) ==
    [sale_type |-> t, item |-> item, date |-> date, price |-> price,
     quantity |-> quantity, expiration |-> expiration]

eS == Entry("S", "Anvil", <<2019, 4, 1>>, <<2999>>, Some(8), None)
eR == Entry("R", "Dynamite", <<2019, 3, 20>>, <<121>>, Some(1), Some(<<2025, 3, 20>>))
eU == Entry("U", "Longer Fuse", <<2019, 3, 20>>, <<1>>, None, None)

GoodEntries == {eS, eR, eU}

BadEntries == {[eS EXCEPT !.sale_type = "Z"],
               [eS EXCEPT !.sale_type = "X"],
               [eS EXCEPT !.price = <<>>],
               [eU EXCEPT !.date = <<>>],
               [eS EXCEPT !.expiration = Some(<<2025, 3, 20>>)],
               [eR EXCEPT !.expiration = Some(<<2025, 2, 30>>)]}

Head_(name, code, date) ==
    [name |-> name, cust_type |-> code, aquisition_date |-> date, sales |-> <<>>]

RecordNames == {X, XAlt}

GoodHeads == {Head_(n, c, <<2017, 1, 2>>) : n \in RecordNames, c \in {"C", "R"}}

BadHeads == {Head_(X, "X", <<2017, 1, 2>>), Head_(X, "Z", <<2017, 1, 2>>),
             Head_(X, "R", <<2017, 2, 29>>)}

\* the lists of n entries of which bad are bad, bad being 0 or 1
EntryLists[n \in 0..MaxPayload, bad \in 0..1] ==
    IF n = 0 THEN (IF bad = 0 THEN {<<>>} ELSE {})
    ELSE {<<e>> \o l : e \in GoodEntries, l \in EntryLists[n - 1, bad]}
         \cup (IF bad = 0 THEN {}
               ELSE {<<e>> \o l : e \in BadEntries, l \in EntryLists[n - 1, 0]})

\* the records of size n (one for the record, one for each of its entries)
\* with bad bad fields
Records[n \in 1..MaxPayload, bad \in 0..1] ==
    {[h EXCEPT !.sales = l] : h \in GoodHeads, l \in EntryLists[n - 1, bad]}
    \cup (IF bad = 0 THEN {}
          ELSE {[h EXCEPT !.sales = l] : h \in BadHeads, l \in EntryLists[n - 1, 0]})

\* the payloads of total size at most n with at most bad bad fields
PayloadsUpTo[n \in 0..MaxPayload, bad \in 0..1] ==
    {<<>>}
    \cup UNION {{<<r>> \o p : r \in Records[k, 0], p \in PayloadsUpTo[n - k, bad]} :
                k \in 1..n}
    \cup (IF bad = 0 THEN {}
          ELSE UNION {{<<r>> \o p : r \in Records[k, 1], p \in PayloadsUpTo[n - k, 0]} :
                      k \in 1..n})

Payloads == PayloadsUpTo[MaxPayload, 1]

\* the payloads of the general specification: a few whole imports
SamplePayloads ==
    {<<>>,
     <<[Head_(X, "R", <<2017, 1, 2>>) EXCEPT !.sales = <<eS, eR>>]>>,
     <<[Head_(X, "C", <<2017, 1, 2>>) EXCEPT !.sales = <<eU, eR>>]>>,
     <<Head_(X, "A", <<2017, 1, 2>>), [Head_(X, "C", <<2017, 1, 2>>) EXCEPT !.sales = <<eS>>]>>,
     <<Head_(XAlt, "R", <<2017, 1, 2>>), Head_(X, "X", <<2017, 1, 2>>)>>,
     <<Head_(X, "Z", <<2017, 1, 2>>)>>}

FilesOf(payloads) ==
    {NoFile, FileWith(GarbageText), FileWith(JsonText(JsonObject))}
    \cup {FileWith(JsonText(JsonList(p))) : p \in payloads}

\* the argument of import_json: the text of the invalid-import test, a payload
FilenameArgs == {GarbageText, JsonText(JsonList(<<>>))}

\* ----------------------------------------------------------------- actions

RECURSIVE TotalSales(_)
TotalSales(cs) ==
    IF cs = <<>> THEN 0 ELSE Len(Head(cs).cust.sales) + TotalSales(Tail(cs))

\* the ledgers the general specification keeps: at most MaxCustomers
\* customers, and at most MaxSize customers and sales together
WithinBounds(cs) ==
    /\ Len(cs) <= MaxCustomers
    /\ Len(cs) + TotalSales(cs) <= MaxSize

\* A call changes the ledger as its operator says. It is either recorded
\* (operation, arguments, the ledger before, exception, return value) or not;
\* a recorded call is the last one of its run, so the record always describes
\* one call made on a ledger that a sequence of calls has built.
Call(op, a, r, rec) ==
    /\ customers' = r.customers
    /\ IF rec
       THEN /\ lastOp' = op
            /\ arg' = a
            /\ pre' = customers
            /\ err' = r.err
            /\ ret' = r.ret
       ELSE /\ lastOp' = "none"
            /\ arg' = <<>>
            /\ pre' = <<>>
            /\ err' = Ok
            /\ ret' = None

Init ==
    /\ customers = <<>>
    /\ lastOp = "none"
    /\ arg = <<>>
    /\ pre = <<>>
    /\ err = Ok
    /\ ret = None

AddCustomer(name, date, code, id, rec) ==
    LET r == Ledger_add_customer(customers, name, date, code, id)
    IN  /\ lastOp = "none"
        /\ WithinBounds(r.customers)
        /\ Call("add_customer",
                [name |-> name, date |-> date, code |-> code, id |-> id], r, rec)

LedgerAddSale(id, sale, rec) ==
    LET r == Ledger_add_sale(customers, id, sale)
    IN  /\ lastOp = "none"
        /\ WithinBounds(r.customers)
        /\ Call("ledger_add_sale", [id |-> id, sale |-> sale], r, rec)

\* add_sale called on the customer object at position i of the ledger
CustomerAddSale(i, sale, rec) ==
    /\ lastOp = "none"
    /\ i \in 1..Len(customers)
    /\ LET r == Customer_add_sale(customers, i, sale)
       IN  /\ WithinBounds(r.customers)
           /\ Call("customer_add_sale", [i |-> i, sale |-> sale], r, rec)

GenerateReport(now, rec) ==
    /\ lastOp = "none"
    /\ Call("generate_report", [now |-> now],
            Ledger_generate_report(customers, now), rec)

ImportJson(filename, file, rec) ==
    LET r == Ledger_import_json(customers, filename, file)
    IN  /\ lastOp = "none"
        /\ WithinBounds(r.customers)
        /\ Call("import_json", [filename |-> filename, file |-> file], r, rec)

\* the ids a caller may name: those of the ledger, and those of the inputs
SaleIds == {X, XAlt, EmptyStr, <<"X", ".alt", ".alt">>}

\* what open(filename) may find, in the general specification
SampleFiles == FilesOf(SamplePayloads)

\* no call is recorded yet: the guard of every action, here once for all arguments
Idle == lastOp = "none"

Next ==
    \/ /\ Idle
       /\ \E name \in Names, date \in DateArgs, code \in CodeArgs, id \in IdArgs,
             rec \in BOOLEAN :
             AddCustomer(name, date, code, id, rec)
    \/ /\ Idle
       /\ \E id \in SaleIds, sale \in SaleArgs, rec \in BOOLEAN :
             LedgerAddSale(id, sale, rec)
    \/ /\ Idle
       /\ \E i \in 1..MaxCustomers, sale \in SaleArgs, rec \in BOOLEAN :
             CustomerAddSale(i, sale, rec)
    \/ /\ Idle
       /\ \E now \in Nows, rec \in BOOLEAN :
             GenerateReport(now, rec)
    \/ /\ Idle
       /\ \E filename \in FilenameArgs, file \in SampleFiles, rec \in BOOLEAN :
             ImportJson(filename, file, rec)

Spec == Init /\ [][Next]_vars

\* ----------------------------------------------- one import, many payloads

\* ledgers that calls of add_customer and add_sale build, on which the
\* payloads are imported
AddedTo(S) ==
    {Ledger_add_customer(cs, X, DateTimeArg(<<2017, 1, 2>>), CodeArg(c), i).customers :
        cs \in S, c \in {"CASH", "SUBSCRIPTION"}, i \in {None, Some(XAlt)}}

SoldTo(S) ==
    {Ledger_add_sale(cs, id, Fuse).customers : cs \in S, id \in {X, XAlt}}

SeedLedgers ==
    LET one == AddedTo({<<>>})
        two == AddedTo(one)
    IN  {<<>>} \cup one \cup two \cup SoldTo(one)

InitImport ==
    /\ customers \in SeedLedgers
    /\ lastOp = "none"
    /\ arg = <<>>
    /\ pre = <<>>
    /\ err = Ok
    /\ ret = None

\* one recorded import of a payload of at most MaxPayload records and entries
ImportPayload(filename, file) ==
    /\ lastOp = "none"
    /\ Call("import_json", [filename |-> filename, file |-> file],
            Ledger_import_json(customers, filename, file), TRUE)

\* what open(filename) may find
PayloadFiles == FilesOf(Payloads)

NextImport ==
    /\ Idle
    /\ \E filename \in FilenameArgs, file \in PayloadFiles :
          ImportPayload(filename, file)

SpecImport == InitImport /\ [][NextImport]_vars

\* ====================================================================
\* The claims. A recorded call is described by lastOp, arg, pre, err and
\* ret; customers is the ledger after it.
\* ====================================================================

IdsOf(cs) == {cs[i].id : i \in 1..Len(cs)}

CustomerKinds == {"CASH", "ACCOUNT", "SUBSCRIPTION"}

\* a date argument that add_customer accepts
DateAccepted(d) == d.type = "datetime" \/ (d.type = "str" /\ ValidDate(d.val))

\* C1: in every reachable state, whatever calls of add_customer, of the two
\* add_sale and of import_json were made and whether they failed or not, no
\* customer of kind cash owns a sale of kind subscription.
C1_CashNeverSubscription ==
    \A i \in 1..Len(customers) :
        customers[i].cust.cust_type = "CASH" =>
            \A k \in 1..Len(customers[i].cust.sales) :
                customers[i].cust.sales[k].sale_type # "SUBSCRIPTION"

\* a cash customer that owns a sale has just been refused a subscription sale
C1_Witness ==
    /\ lastOp \in {"ledger_add_sale", "customer_add_sale", "import_json"}
    /\ err = Raise("AssertionError", "cash-subscription")
    /\ \E i \in 1..Len(customers) :
          /\ customers[i].cust.cust_type = "CASH"
          /\ customers[i].cust.sales # <<>>

\* C2 as stated: add_customer called with an id that is already in the ledger,
\* given explicitly or defaulted from the name when omitted, and with a kind
\* and a date that it accepts, fails with DuplicateKey and leaves the ledger
\* as it was.
C2_DuplicateFails ==
    (/\ lastOp = "add_customer"
     /\ arg.code.type = "CustomerCode"
     /\ arg.code.val \in CustomerKinds
     /\ DateAccepted(arg.date)
     /\ (IF arg.id = None THEN arg.name ELSE arg.id[1]) \in IdsOf(pre))
    => (err = Raise("ValueError", "duplicate") /\ customers = pre)

\* C3 as stated: import_json called with a text that is not well-formed fails
\* with the JSON decode error and leaves the ledger as it was.
C3_ParseError ==
    (lastOp = "import_json" /\ ~arg.filename.wf)
    => (err = Raise("JSONDecodeError", "json.loads") /\ customers = pre)

\* the text the claim gives for the report of the ledger cs at the time now
RECURSIVE SummaryLines(_, _)
SummaryLines(cs, now) ==
    IF cs = <<>> THEN <<>>
    ELSE summary_line(Head(cs).cust, now).val \o <<"\n">> \o SummaryLines(Tail(cs), now)

ExpectedReport(cs, now) ==
    IF cs = <<>> THEN <<"Customers:", "\n", "(none)">>
    ELSE <<"Customers:", "\n">> \o SummaryLines(cs, now)

\* C6 as stated: generate_report returns the header followed by the summary
\* line of every customer, each ended by a newline, in the order in which the
\* customers were added, or the header and "(none)" for an empty ledger; it
\* does not change the ledger.
C6_Report ==
    lastOp = "generate_report" =>
        /\ err = Ok
        /\ customers = pre
        /\ ret = Some(ExpectedReport(pre, arg.now))

\* C6 on the days whose date exists in the year before: not the claim, which
\* names no such condition
C6_ExceptLeapDay ==
    (lastOp = "generate_report" /\ ReplaceYear(arg.now).err = Ok) =>
        /\ err = Ok
        /\ customers = pre
        /\ ret = Some(ExpectedReport(pre, arg.now))

\* C7: customer.add_sale, for a customer of kind cash, account or subscription
\* and a sale of kind standalone, upgrade or subscription, succeeds and makes
\* the sale the last one of the customer's sales, the earlier ones staying in
\* their order and everything else in the ledger as it was; but for a cash
\* customer and a subscription sale it fails with the assertion of the cash
\* rule (InvariantViolation) and changes nothing.
C7_AddSaleAppends ==
    (/\ lastOp = "customer_add_sale"
     /\ arg.sale.cls \in {"ProductSale", "UpgradeSale", "SubscriptionSale"}
     /\ pre[arg.i].cust.cust_type \in CustomerKinds)
    => IF pre[arg.i].cust.cust_type = "CASH" /\ arg.sale.sale_type = "SUBSCRIPTION"
       THEN err = Raise("AssertionError", "cash-subscription") /\ customers = pre
       ELSE /\ err = Ok
            /\ Len(customers) = Len(pre)
            /\ customers[arg.i].cust.sales = pre[arg.i].cust.sales \o <<arg.sale>>
            /\ customers = [pre EXCEPT ![arg.i].cust.sales = customers[arg.i].cust.sales]

\* a sale was added to a customer that already owned one
C7_Witness ==
    /\ lastOp = "customer_add_sale"
    /\ err = Ok
    /\ pre[arg.i].cust.sales # <<>>
    /\ pre[arg.i].cust.sales[1] # arg.sale

\* C8: Ledger.add_sale with an id that is not in the ledger fails with the
\* assertion on the id (KeyNotFound) and changes nothing; with an id of the
\* ledger it ends as customer.add_sale ends on that customer, with the same
\* exception or the same new customer record, and the ids and all the other
\* customers are as they were.
C8_LedgerAddSale ==
    lastOp = "ledger_add_sale" =>
        IF arg.id \notin IdsOf(pre)
        THEN err = Raise("AssertionError", "cust_id") /\ customers = pre
        ELSE \E i \in 1..Len(pre) :
                /\ pre[i].id = arg.id
                /\ LET r == BaseCustomer_add_sale(pre[i].cust, arg.sale)
                   IN  /\ err = r.err
                       /\ Len(customers) = Len(pre)
                       /\ \A j \in 1..Len(pre) :
                             /\ customers[j].id = pre[j].id
                             /\ j # i => customers[j] = pre[j]
                       /\ customers[i].cust = IF r.err = Ok THEN r.val ELSE pre[i].cust

\* a sale was added by id to the second customer of the ledger
C8_Witness ==
    /\ lastOp = "ledger_add_sale"
    /\ err = Ok
    /\ Len(pre) >= 2
    /\ pre[2].id = arg.id
    /\ customers[2].cust.sales # pre[2].cust.sales

\* the id under which add_customer stores: the name when the id is omitted or empty
StoredId(a) == IF a.id = None \/ a.id = Some(EmptyStr) THEN a.name ELSE a.id[1]

\* the records of the file that a recorded import has read
ReadList ==
    /\ lastOp = "import_json"
    /\ arg.file.exists
    /\ arg.file.content.wf
    /\ arg.file.content.value.type = "list"

Data == arg.file.content.value.items

\* the number of customers the recorded call has added
Added == Len(customers) - Len(pre)

\* C9 as stated: add_customer called with the kind unknown (and a date it
\* accepts) fails with TypeMismatch, the KeyError of the kind lookup counting
\* as one, and adds nothing.
C9_UnknownIsTypeMismatch ==
    (/\ lastOp = "add_customer"
     /\ arg.code = CodeArg("UNKNOWN")
     /\ DateAccepted(arg.date))
    => (err.exc \in {"AssertionError", "KeyError"} /\ customers = pre)

\* C9, amended: add_customer called with the kind unknown always fails and
\* adds nothing: with the date's exception when the date is not accepted, else
\* with DuplicateKey when the id it would store under is in the ledger, else
\* with the KeyError of the kind lookup. An import record whose cust_type is
\* not C, A or R makes the import fail with no customer added for it or for a
\* later record. So every customer of every reachable ledger is of kind cash,
\* account or subscription.
C9_UnknownRejected ==
    /\ \A i \in 1..Len(customers) : customers[i].cust.cust_type \in CustomerKinds
    /\ (lastOp = "add_customer" /\ arg.code = CodeArg("UNKNOWN")) =>
          /\ customers = pre
          /\ err = IF arg.date.type = "other"
                   THEN Raise("AssertionError", "acquisition_date")
                   ELSE IF ~DateAccepted(arg.date)
                   THEN Raise("ValueError", "acquisition_date")
                   ELSE IF StoredId(arg) \in IdsOf(pre)
                   THEN Raise("ValueError", "duplicate")
                   ELSE Raise("KeyError", "CUSTOMER_MAP")
    /\ ReadList =>
          \A k \in 1..Len(Data) :
              Data[k].cust_type \notin {"C", "A", "R"} =>
                  (err # Ok /\ Added < k)

\* add_customer with the kind unknown and an id of the ledger: DuplicateKey
C9_Witness ==
    /\ lastOp = "add_customer"
    /\ arg.code = CodeArg("UNKNOWN")
    /\ pre # <<>>
    /\ err = Raise("ValueError", "duplicate")

\* ------------------------------------------------ the claims about import
\* They are about the records that import_json reads: those of the file that
\* it opens under the name it is given.

\* name followed by k suffixes ".alt"
AltId(name, k) == name \o [i \in 1..k |-> ".alt"]

\* name with the least number of suffixes that gives an id not in ids
LeastFreeId(ids, name) ==
    AltId(name, CHOOSE k \in 0..Cardinality(ids) :
                    /\ AltId(name, k) \notin ids
                    /\ \A j \in 0..(k - 1) : AltId(name, j) \in ids)

\* what the payload format asks of a record's own fields and of an entry of
\* a record with the customer code code
HeadOk(r) == r.cust_type \in {"C", "A", "R"} /\ ValidDate(r.aquisition_date)

EntryOk(code, e) ==
    /\ e.sale_type \in {"S", "R", "U"}
    /\ Len(e.price) = 1
    /\ ValidDate(e.date)
    /\ e.expiration # None => (e.sale_type = "R" /\ ValidDate(e.expiration[1]))
    /\ ~(code = "C" /\ e.sale_type = "R")

RecordOk(r) == HeadOk(r) /\ \A j \in 1..Len(r.sales) : EntryOk(r.cust_type, r.sales[j])

\* the sale that import makes of an entry
IsSaleOf(sale, e) ==
    /\ sale.item = e.item
    /\ SaleCodeValue(sale.sale_type) = e.sale_type
    /\ sale.date = e.date
    /\ sale.price = e.price[1]
    /\ sale.quantity = (IF e.quantity = None THEN 1 ELSE e.quantity[1])
    /\ sale.expiration = e.expiration

\* the customer made of the j-th record that was read
CustomerOf(j) == customers[Len(pre) + j]

\* sales are the sales of the first n entries of the record r, in their order
HasEntries(sales, r, n) ==
    /\ Len(sales) = n
    /\ \A k \in 1..n : IsSaleOf(sales[k], r.sales[k])

\* C4: import has no rollback and stops at the first failure. When the i-th
\* record is the first that fails, the customers of the records before it are
\* in the ledger with all their sales; when the failure is in the record's own
\* fields no customer is added for it, and when it is in its j-th entry its
\* customer is in the ledger with exactly the entries before j, in input
\* order; nothing of a later entry or record is added, and what was in the
\* ledger before the import is still there. With no failing record the import
\* succeeds.
C4_NoRollback ==
    ReadList =>
        IF \A i \in 1..Len(Data) : RecordOk(Data[i])
        THEN err = Ok /\ Added = Len(Data)
        ELSE LET i == CHOOSE x \in 1..Len(Data) :
                        ~RecordOk(Data[x]) /\ \A h \in 1..(x - 1) : RecordOk(Data[h])
                 r == Data[i]
             IN  /\ err # Ok
                 /\ Added >= 0
                 /\ \A h \in 1..Len(pre) : customers[h] = pre[h]
                 /\ \A h \in 1..(i - 1) :
                       /\ h <= Added
                       /\ HasEntries(CustomerOf(h).cust.sales, Data[h], Len(Data[h].sales))
                 /\ IF ~HeadOk(r)
                    THEN Added = i - 1
                    ELSE /\ Added = i
                         /\ LET j == CHOOSE y \in 1..Len(r.sales) :
                                        /\ ~EntryOk(r.cust_type, r.sales[y])
                                        /\ \A k \in 1..(y - 1) : EntryOk(r.cust_type, r.sales[k])
                            IN  HasEntries(CustomerOf(i).cust.sales, r, j - 1)

\* an import failed at the second entry of a record, after a first record
\* or a first entry had been added
C4_Witness ==
    /\ ReadList
    /\ err # Ok
    /\ Added >= 1
    /\ Len(CustomerOf(Added).cust.sales) = 1
    /\ Len(Data[Added].sales) = 2

\* C5: the id under which import adds a record is the record's name followed
\* by the least number k >= 0 of suffixes ".alt" that gives an id not in the
\* ledger at that moment, also when the name itself ends in ".alt". So import
\* never fails with DuplicateKey, and when every record is well-formed it
\* succeeds and the ledger gains exactly one customer for each record.
C5_ImportIds ==
    ReadList =>
        /\ err # Raise("ValueError", "duplicate")
        /\ Added \in 0..Len(Data)
        /\ \A j \in 1..Added :
              CustomerOf(j).id =
                  LeastFreeId({customers[h].id : h \in 1..(Len(pre) + j - 1)}, Data[j].name)
        /\ (\A j \in 1..Len(Data) : RecordOk(Data[j])) => (err = Ok /\ Added = Len(Data))

\* a record was added with two suffixes more than its name
C5_Witness ==
    /\ ReadList
    /\ err = Ok
    /\ \E j \in 1..Added : CustomerOf(j).id = AltId(Data[j].name, 2)

\* C10: the sales of a record are appended, in input order, to the customer
\* that import has made of this record, under its derived id, also when the id
\* got a suffix because the name was taken; every customer that was in the
\* ledger before, one of the same name included, keeps its record and its
\* sales.
C10_ImportSales ==
    ReadList =>
        /\ Added >= 0
        /\ \A h \in 1..Len(pre) : customers[h] = pre[h]
        /\ \A j \in 1..Added :
              /\ CustomerOf(j).cust.name = Data[j].name
              /\ CustomerCodeValue(CustomerOf(j).cust.cust_type) = Data[j].cust_type
              /\ Len(CustomerOf(j).cust.sales) <= Len(Data[j].sales)
              /\ HasEntries(CustomerOf(j).cust.sales, Data[j], Len(CustomerOf(j).cust.sales))
              /\ (j < Added \/ err = Ok) =>
                    Len(CustomerOf(j).cust.sales) = Len(Data[j].sales)

\* two sales were imported for a record whose name was taken by a customer
\* that owns a sale
C10_Witness ==
    /\ ReadList
    /\ err = Ok
    /\ Added = 1
    /\ CustomerOf(1).id # Data[1].name
    /\ Len(CustomerOf(1).cust.sales) = 2
    /\ \E h \in 1..Len(pre) : pre[h].id = Data[1].name /\ pre[h].cust.sales # <<>>

====
